---- MODULE Spec2Model ----
(***************************************************************************)
(* Model of mcp_server.py: the tool registry built by load_tools at import *)
(* time, the discovery endpoint get_tools, and the JSON-RPC endpoint       *)
(* mcp_endpoint with its dispatcher _dispatch_tool.                        *)
(*                                                                         *)
(* Encodings.                                                              *)
(*  - Optional[T] is a sequence of length at most one: <<>> is None,       *)
(*    <<x>> is the value x.                                                *)
(*  - A str that the code inspects character-wise (a tool name, a message) *)
(*    is a sequence of tokens; the tokens "." and "_" are the separator    *)
(*    characters, every other token is a run without separators.           *)
(*  - A Python dict is a sequence of <<key, value>> entries with pairwise  *)
(*    distinct keys, in insertion order.                                   *)
(*  - A JSON scalar is a string holding its literal ("False", "None").     *)
(***************************************************************************)
EXTENDS Integers, Sequences, FiniteSets, TLC

\* Longest catalog (number of records in tools.json) explored.
MaxCatalog == 2
\* Largest params bag (number of entries) explored.
MaxParams == 2

VARIABLES
    tools_file,     \* the content of TOOLS_FILE, read once by load_tools
    TOOLS_LOOKUP,   \* the module global built at import
    pc,             \* "import" before line 60 has run, then "serving";
                    \* "replied" while the last reply is on its way out
    req,            \* Optional: the request of the last /mcp call
    reply,          \* what the last endpoint call produced
    trace,          \* the steps the last /mcp call performed, in order
    handler_outcome \* Optional: what the handler body did in the last /mcp call

vars == <<tools_file, TOOLS_LOOKUP, pc, req, reply, trace, handler_outcome>>

None == <<>>
Some(x) == <<x>>

----------------------------------------------------------------------------
(* Python dict, insertion ordered *)

EmptyDict == <<>>

DictHas(d, k) == \E i \in DOMAIN d : d[i][1] = k

DictIndex(d, k) == CHOOSE i \in DOMAIN d : d[i][1] = k

\* Faulty variant of DictSet: an existing key keeps its old value (setdefault).
DictSetFirstWins(d, k, v) ==
    IF DictHas(d, k) THEN d ELSE Append(d, <<k, v>>)

\* d[k] = v: an existing key keeps its position and takes the new value.
DictSet(d, k, v) ==
    IF DictHas(d, k)
    THEN [d EXCEPT ![DictIndex(d, k)] = <<k, v>>]
    ELSE Append(d, <<k, v>>)

\* d.get(k): None when the key is absent.
DictGet(d, k) == IF DictHas(d, k) THEN Some(d[DictIndex(d, k)][2]) ELSE None

\* list(d.values())
DictValues(d) == [i \in DOMAIN d |-> d[i][2]]

DictKeys(d) == [i \in DOMAIN d |-> d[i][1]]

----------------------------------------------------------------------------
(* Exceptions *)

Exc(type, msg) == [type |-> type, msg |-> msg]

\* The base class of each built-in exception class the program meets.
Parent(type) ==
    CASE type = "NotImplementedError" -> "RuntimeError"
      [] type = "JSONDecodeError" -> "ValueError"
      [] type = "FileNotFoundError" -> "OSError"
      [] type = "KeyError" -> "LookupError"
      [] type \in {"RuntimeError", "ValueError", "TypeError", "OSError", "LookupError"} ->
           "Exception"
      [] OTHER -> "BaseException"

\* isinstance(exc, cls): what an except clause naming cls catches.
RECURSIVE IsInstance(_, _)
IsInstance(type, cls) ==
    \/ type = cls
    \/ type # "BaseException" /\ IsInstance(Parent(type), cls)

\* What a handler body raises once its stub is replaced by a real
\* integration: some exception, or NotImplementedError for unfinished work.
HandlerFaults ==
    {Exc("RuntimeError", <<"boom">>), Exc("NotImplementedError", <<"todo">>)}

----------------------------------------------------------------------------
(* The catalog source and load_tools *)

\* Tool names the catalog and the requests draw from.
NameMailSend == <<"mail", ".", "send">>
NameMailSendUnderscore == <<"mail", "_", "send">>
NameGhaStatus == <<"gha", ".", "status">>
NameEchoPing == <<"echo", ".", "ping">>

ToolNames == {NameMailSend, NameMailSendUnderscore, NameGhaStatus, NameEchoPing}

Descriptions == {"d1", "d2"}

\* A record of tools.json: a JSON object with or without the "name" field.
\* Every name comes with the first description; mail.send also with the
\* second, so that a repeated name can carry different metadata.
NamedRecords ==
    [name : ToolNames, description : {"d1"}]
        \cup [name : {NameMailSend}, description : Descriptions]
NamelessRecords == [description : {"d1"}]
CatalogRecords == NamedRecords \cup NamelessRecords

SeqsUpTo(S, n) == UNION {[1..k -> S] : k \in 0..n}

\* What open/json.load can meet: no readable file, text that is not JSON,
\* JSON that is not a list of objects, or a list of objects.
CatalogSources ==
    {[kind |-> "unreadable"], [kind |-> "malformed"], [kind |-> "not_a_list"]}
    \cup {[kind |-> "list", tools |-> c] : c \in SeqsUpTo(CatalogRecords, MaxCatalog)}

\* tool["name"] raises KeyError on a record without the field.
HasName(tool) == "name" \in DOMAIN tool

\* {tool["name"]: tool for tool in tools}, for records that all have a name.
RECURSIVE BuildLookup(_)
BuildLookup(tools) ==
    IF tools = <<>> THEN EmptyDict
    ELSE LET front == SubSeq(tools, 1, Len(tools) - 1)
             last == tools[Len(tools)]
         IN DictSet(BuildLookup(front), last.name, last)

\* Faulty variant of TryLoad: records without a name are skipped instead of
\* failing the load.
TryLoadSkipNameless(source) ==
    CASE source.kind = "unreadable" ->
           [kind |-> "raise", exc |-> Exc("FileNotFoundError", <<"No such file">>)]
      [] source.kind = "malformed" ->
           [kind |-> "raise", exc |-> Exc("JSONDecodeError", <<"Expecting value">>)]
      [] source.kind = "not_a_list" ->
           [kind |-> "raise", exc |-> Exc("TypeError", <<"not subscriptable">>)]
      [] source.kind = "list" ->
           [kind |-> "return",
            value |-> BuildLookup(SelectSeq(source.tools, HasName))]

\* The try block of load_tools: open and json.load, then the dict
\* comprehension, which stops at the first record it cannot index by "name".
TryLoad(source) ==
    CASE source.kind = "unreadable" ->
           [kind |-> "raise", exc |-> Exc("FileNotFoundError", <<"No such file">>)]
      [] source.kind = "malformed" ->
           [kind |-> "raise", exc |-> Exc("JSONDecodeError", <<"Expecting value">>)]
      [] source.kind = "not_a_list" ->
           [kind |-> "raise", exc |-> Exc("TypeError", <<"not subscriptable">>)]
      [] source.kind = "list" ->
           IF \E i \in DOMAIN source.tools : ~HasName(source.tools[i])
           THEN [kind |-> "raise", exc |-> Exc("KeyError", <<"'name'">>)]
           ELSE [kind |-> "return", value |-> BuildLookup(source.tools)]

\* load_tools: `except Exception` turns a failure of the try block into the
\* empty dict; anything it does not catch leaves the function.
load_tools(source) ==
    LET t == TryLoad(source)
    IN IF t.kind = "return" THEN t
       ELSE IF IsInstance(t.exc.type, "Exception")
       THEN [kind |-> "return", value |-> EmptyDict]
       ELSE t

\* Faulty variant of get_tools: the descriptors in reverse order.
get_tools_reversed(lookup) ==
    [i \in DOMAIN lookup |-> lookup[Len(lookup) + 1 - i][2]]

\* get_tools: list(TOOLS_LOOKUP.values())
get_tools(lookup) == DictValues(lookup)

----------------------------------------------------------------------------
(* Requests: JSONRPCRequest *)

JsonRpcVersions == {"2.0", "1.0"}

RequestIds == {None, Some(7)}

ParamKeys == {"draft_id", "dry_run", "run_id"}

\* "d1" is a truthy JSON value, "False" the falsy one.
ParamValues == {"d1", "False"}

\* Dict[str, Any]: entries in the order the request gave them.
ParamBags ==
    {b \in SeqsUpTo(ParamKeys \X ParamValues, MaxParams) :
        \A i, j \in DOMAIN b : i # j => b[i][1] # b[j][1]}

Requests ==
    [jsonrpc : JsonRpcVersions,
     id : RequestIds,
     method : ToolNames,
     params : {None} \cup {Some(b) : b \in ParamBags}]

----------------------------------------------------------------------------
(* The handler namespace: the tool_ functions of the module *)

tool_slack_post == <<"tool_", "slack", "_", "post">>
tool_mail_draft == <<"tool_", "mail", "_", "draft">>
tool_mail_send == <<"tool_", "mail", "_", "send">>
tool_gha_run == <<"tool_", "gha", "_", "run">>
tool_gha_status == <<"tool_", "gha", "_", "status">>
tool_sql_query == <<"tool_", "sql", "_", "query">>
tool_chart_bar == <<"tool_", "chart", "_", "bar">>

Handlers ==
    {tool_slack_post, tool_mail_draft, tool_mail_send, tool_gha_run,
     tool_gha_status, tool_sql_query, tool_chart_bar}

\* globals().get(identifier)
GlobalsGet(identifier) == IF identifier \in Handlers THEN Some(identifier) ELSE None

\* The parameters each handler declares: the required ones in order, then
\* the ones with a default.
Signature(h) ==
    CASE h = tool_slack_post ->
           [required |-> <<"channel", "text">>, optional |-> <<<<"thread_ts", "None">>>>]
      [] h = tool_mail_draft ->
           [required |-> <<"to", "subject", "body_md">>, optional |-> <<>>]
      [] h = tool_mail_send ->
           [required |-> <<"draft_id">>, optional |-> <<<<"dry_run", "False">>>>]
      [] h = tool_gha_run ->
           [required |-> <<"owner", "repo", "workflow_id", "ref">>,
            optional |-> <<<<"inputs", "None">>, <<"dry_run", "False">>>>]
      [] h = tool_gha_status ->
           [required |-> <<"run_id">>, optional |-> <<>>]
      [] h = tool_sql_query ->
           [required |-> <<"name", "text_sql">>, optional |-> <<<<"params", "None">>>>]
      [] h = tool_chart_bar ->
           [required |-> <<"json_data">>, optional |-> <<>>]

Truthy(v) == v \notin {"False", "None", "", "{}", "0"}

\* The value each stub returns for its bound arguments.
Body(h, a) ==
    CASE h = tool_slack_post ->
           [status |-> "ok", channel |-> a.channel, message |-> a.text,
            thread_ts |-> a.thread_ts]
      [] h = tool_mail_draft ->
           [draft_id |-> "draft_12345", to |-> a.to, subject |-> a.subject]
      [] h = tool_mail_send ->
           IF Truthy(a.dry_run)
           THEN [dry_run |-> "True", draft_id |-> a.draft_id]
           ELSE [status |-> "sent", draft_id |-> a.draft_id]
      [] h = tool_gha_run ->
           IF Truthy(a.dry_run)
           THEN [dry_run |-> "True", workflow_id |-> a.workflow_id, ref |-> a.ref,
                 inputs |-> IF Truthy(a.inputs) THEN a.inputs ELSE "{}"]
           ELSE [status |-> "queued", workflow_id |-> a.workflow_id]
      [] h = tool_gha_status ->
           [run_id |-> a.run_id, status |-> "unknown"]
      [] h = tool_sql_query ->
           [name |-> a.name, rows |-> "[]", columns |-> "[]"]
      [] h = tool_chart_bar ->
           [url |-> "https://example.com/chart.png"]

Range(s) == {s[i] : i \in DOMAIN s}

Digits == <<"1", "2", "3", "4", "5", "6">>

\* Faulty variant of Bind: undeclared keys are dropped instead of rejected.
BindLenient(h, bag) ==
    LET sig == Signature(h)
        declared == Range(sig.required) \cup {sig.optional[i][1] : i \in DOMAIN sig.optional}
        missing == SelectSeq(sig.required, LAMBDA p : ~DictHas(bag, p))
    IN IF missing # <<>>
       THEN [ok |-> FALSE,
             exc |-> Exc("TypeError",
                         h \o <<"() missing ", Digits[Len(missing)],
                                " required positional argument",
                                IF Len(missing) = 1 THEN "" ELSE "s", ": ">>
                           \o missing)]
       ELSE [ok |-> TRUE,
             args |-> [p \in declared |->
                         IF DictHas(bag, p) THEN DictGet(bag, p)[1]
                         ELSE DictGet(sig.optional, p)[1]]]

\* handler(**params): Python binds the keyword arguments before the body
\* runs. An undeclared key is reported first (the first one in the bag's
\* order), then the required parameters left without a value.
Bind(h, bag) ==
    LET sig == Signature(h)
        declared == Range(sig.required) \cup {sig.optional[i][1] : i \in DOMAIN sig.optional}
        unexpected == {i \in DOMAIN bag : bag[i][1] \notin declared}
        first == CHOOSE i \in unexpected : \A j \in unexpected : i <= j
        missing == SelectSeq(sig.required, LAMBDA p : ~DictHas(bag, p))
    IN IF unexpected # {}
       THEN [ok |-> FALSE,
             exc |-> Exc("TypeError",
                         h \o <<"() got an unexpected keyword argument '",
                                bag[first][1], "'">>)]
       ELSE IF missing # <<>>
       THEN [ok |-> FALSE,
             exc |-> Exc("TypeError",
                         h \o <<"() missing ", Digits[Len(missing)],
                                " required positional argument",
                                IF Len(missing) = 1 THEN "" ELSE "s", ": ">>
                           \o missing)]
       ELSE [ok |-> TRUE,
             args |-> [p \in declared |->
                         IF DictHas(bag, p) THEN DictGet(bag, p)[1]
                         ELSE DictGet(sig.optional, p)[1]]]

----------------------------------------------------------------------------
(* _dispatch_tool *)

\* method.replace(".", "_")
Replace(method) == [i \in DOMAIN method |-> IF method[i] = "." THEN "_" ELSE method[i]]

\* f"tool_{func_name}"
HandlerIdentifier(method) == <<"tool_">> \o Replace(method)

UnknownToolMessage(method) == <<"Unknown tool '">> \o method \o <<"'">>

\* Faulty variant of UnimplementedMessage: the message names the derived identifier.
UnimplementedMessageDerived(method) ==
    <<"No handler implemented for tool '">> \o Replace(method) \o <<"'">>

UnimplementedMessage(method) ==
    <<"No handler implemented for tool '">> \o method \o <<"'">>

\* `not tool_def`: None, or a dict without entries.
Falsy(opt) == opt = None \/ DOMAIN opt[1] = {}

\* params is None -> {}
NormalizeParams(params) == IF params = None THEN EmptyDict ELSE params[1]

Raise(exc, steps, ran) ==
    [kind |-> "raise", exc |-> exc, trace |-> steps, handler_outcome |-> ran]

Return(value, steps, ran) ==
    [kind |-> "return", value |-> value, trace |-> steps, handler_outcome |-> ran]

\* The call of line 85 once the handler is resolved: binding, then the body,
\* which returns the stub's value unless the fault is injected.
CallHandler(h, bag, fault) ==
    LET b == Bind(h, bag)
    IN IF ~b.ok
       THEN Raise(b.exc, <<"lookup", "resolve", "bind">>, None)
       ELSE IF fault # None
       THEN Raise(fault[1], <<"lookup", "resolve", "bind", "body">>,
                  Some([kind |-> "raise", exc |-> fault[1]]))
       ELSE LET v == Body(h, b.args)
            IN Return(v, <<"lookup", "resolve", "bind", "body">>,
                      Some([kind |-> "return", value |-> v]))

_dispatch_tool(lookup, method, params, fault) ==
    LET tool_def == DictGet(lookup, method)
        handler == GlobalsGet(HandlerIdentifier(method))
    IN IF Falsy(tool_def)
       THEN Raise(Exc("ValueError", UnknownToolMessage(method)), <<"lookup">>, None)
       ELSE IF handler = None
       THEN Raise(Exc("NotImplementedError", UnimplementedMessage(method)),
                  <<"lookup", "resolve">>, None)
       ELSE CallHandler(handler[1], NormalizeParams(params), fault)

----------------------------------------------------------------------------
(* mcp_endpoint *)

MethodNotFound == -32601
InternalError == -32603
BadRequest == 400

\* Faulty variant of ResultEnvelope: the handler's value wrapped in a list.
ResultEnvelopeWrapped(id, result) ==
    [jsonrpc |-> "2.0", id |-> id, result |-> <<result>>]

ResultEnvelope(id, result) ==
    [jsonrpc |-> "2.0", id |-> id, result |-> result]

\* Faulty variant of ErrorEnvelope: a null result beside the error.
ErrorEnvelopeWithResult(id, code, message) ==
    [jsonrpc |-> "2.0", id |-> id, result |-> "None",
     error |-> [code |-> code, message |-> message]]

ErrorEnvelope(id, code, message) ==
    [jsonrpc |-> "2.0", id |-> id, error |-> [code |-> code, message |-> message]]

\* The except clauses of mcp_endpoint, tried in order: the code of the error
\* envelope, or None when no clause catches the exception.
ErrorCode(exc) ==
    IF IsInstance(exc.type, "NotImplementedError") THEN Some(MethodNotFound)
    ELSE IF IsInstance(exc.type, "Exception") THEN Some(InternalError)
    ELSE None

\* Faulty variant of mcp_endpoint: the version is checked after the dispatch.
mcp_endpoint_late_check(lookup, r, fault) ==
    LET d == _dispatch_tool(lookup, r.method, r.params, fault)
        sent == IF r.jsonrpc # "2.0"
                THEN [kind |-> "http_error", status |-> BadRequest,
                      detail |-> "Invalid JSON-RPC version"]
                ELSE IF d.kind = "return"
                THEN [kind |-> "envelope", body |-> ResultEnvelope(r.id, d.value)]
                ELSE IF ErrorCode(d.exc) # None
                THEN [kind |-> "envelope",
                      body |-> ErrorEnvelope(r.id, ErrorCode(d.exc)[1], d.exc.msg)]
                ELSE [kind |-> "uncaught", exc |-> d.exc]
    IN [reply |-> sent, trace |-> d.trace, handler_outcome |-> d.handler_outcome]

mcp_endpoint(lookup, r, fault) ==
    IF r.jsonrpc # "2.0"
    THEN [reply |-> [kind |-> "http_error", status |-> BadRequest,
                     detail |-> "Invalid JSON-RPC version"],
          trace |-> <<>>, handler_outcome |-> None]
    ELSE LET d == _dispatch_tool(lookup, r.method, r.params, fault)
             sent == IF d.kind = "return"
                     THEN [kind |-> "envelope", body |-> ResultEnvelope(r.id, d.value)]
                     ELSE IF ErrorCode(d.exc) # None
                     THEN [kind |-> "envelope",
                           body |-> ErrorEnvelope(r.id, ErrorCode(d.exc)[1], d.exc.msg)]
                     ELSE [kind |-> "uncaught", exc |-> d.exc]
         IN [reply |-> sent, trace |-> d.trace, handler_outcome |-> d.handler_outcome]

----------------------------------------------------------------------------
Init ==
    /\ tools_file \in CatalogSources
    /\ TOOLS_LOOKUP = EmptyDict
    /\ pc = "import"
    /\ req = None
    /\ reply = [kind |-> "none"]
    /\ trace = <<>>
    /\ handler_outcome = None

\* TOOLS_LOOKUP = load_tools(), executed once when the module is imported.
LoadTools ==
    /\ pc = "import"
    /\ LET out == load_tools(tools_file)
       IN IF out.kind = "return"
          THEN TOOLS_LOOKUP' = out.value /\ pc' = "serving"
          ELSE TOOLS_LOOKUP' = TOOLS_LOOKUP /\ pc' = "crashed"
    /\ UNCHANGED <<tools_file, req, reply, trace, handler_outcome>>

\* GET /tools
GetTools ==
    /\ pc = "serving"
    /\ reply' = [kind |-> "tools", body |-> get_tools(TOOLS_LOOKUP)]
    /\ pc' = "replied"
    /\ UNCHANGED <<tools_file, TOOLS_LOOKUP, req, trace, handler_outcome>>

\* POST /mcp with request r; fault is what the handler body raises, if it
\* raises.
McpEndpoint(r, fault) ==
    /\ pc = "serving"
    /\ LET out == mcp_endpoint(TOOLS_LOOKUP, r, fault)
       IN /\ reply' = out.reply
          /\ trace' = out.trace
          /\ handler_outcome' = out.handler_outcome
    /\ req' = Some(r)
    /\ pc' = "replied"
    /\ UNCHANGED <<tools_file, TOOLS_LOOKUP>>

\* The reply leaves the process; nothing of the exchange is kept, the
\* registry stays as loaded.
Respond ==
    /\ pc = "replied"
    /\ pc' = "serving"
    /\ req' = None
    /\ reply' = [kind |-> "none"]
    /\ trace' = <<>>
    /\ handler_outcome' = None
    /\ UNCHANGED <<tools_file, TOOLS_LOOKUP>>

Next ==
    \/ LoadTools
    \/ GetTools
    \/ Respond
    \/ \E r \in Requests, fault \in {None} \cup {Some(f) : f \in HandlerFaults} :
          McpEndpoint(r, fault)

Spec == Init /\ [][Next]_vars

----------------------------------------------------------------------------
(* The properties *)

\* The last call was POST /mcp and its reply is at hand.
McpAnswered == pc = "replied" /\ req # None

\* The last call was POST /mcp with jsonrpc = "2.0".
Dispatched == McpAnswered /\ req[1].jsonrpc = "2.0"

\* The last call was GET /tools.
ToolsAnswered == pc = "replied" /\ reply.kind = "tools"

IsErrorReply == reply.kind = "envelope" /\ "error" \in DOMAIN reply.body

RegistryKeys == Range(DictKeys(TOOLS_LOOKUP))

\* t occurs in s as a contiguous run.
Contains(s, t) ==
    \E i \in 0..(Len(s) - Len(t)) : SubSeq(s, i + 1, i + Len(t)) = t

\* The handler the request's method derives, if the namespace has one.
DerivedHandler == GlobalsGet(HandlerIdentifier(req[1].method))

\* The bag the handler is called with.
GivenBag == NormalizeParams(req[1].params)

DeclaredParams(h) ==
    Range(Signature(h).required)
        \cup {Signature(h).optional[i][1] : i \in DOMAIN Signature(h).optional}

\* The bag has a key h does not declare, or lacks one h requires.
BagMismatch(h, bag) ==
    \/ \E i \in DOMAIN bag : bag[i][1] \notin DeclaredParams(h)
    \/ \E p \in Range(Signature(h).required) : ~DictHas(bag, p)

\* The catalog file is a list of records.
ListCatalog == tools_file.kind = "list"

AllNamed == \A i \in DOMAIN tools_file.tools : HasName(tools_file.tools[i])

\* The positions of the catalog whose record has name n.
Occurrences(n) == {i \in DOMAIN tools_file.tools : tools_file.tools[i].name = n}

UniqueNames == \A n \in ToolNames : Cardinality(Occurrences(n)) <= 1

Loaded == pc \in {"serving", "replied"}

\* C1: a "2.0" request whose method is no key of the registry is answered
\* by an error envelope with code -32601, the message "Unknown tool
\* '<method>'" and the request's id, and no handler is invoked.
C1_UnknownToolIsMethodNotFound ==
    (Dispatched /\ req[1].method \notin RegistryKeys) =>
        /\ IsErrorReply
        /\ reply.body.error.code = -32601
        /\ reply.body.error.message = <<"Unknown tool '">> \o req[1].method \o <<"'">>
        /\ reply.body.id = req[1].id
        /\ handler_outcome = None
        /\ "bind" \notin Range(trace)

\* C2: when the handler body raises, whatever the exception's type
\* (NotImplementedError included), the reply is an error envelope with code
\* -32603 carrying the exception's message, and nothing propagates.
C2_HandlerRaiseIsInternalError ==
    (Dispatched /\ handler_outcome # None /\ handler_outcome[1].kind = "raise") =>
        /\ IsErrorReply
        /\ reply.body.error.code = -32603
        /\ reply.body.error.message = handler_outcome[1].exc.msg

\* C3: a "2.0" request whose method is in the registry, whose handler
\* exists and whose params bind runs the handler, and when the handler
\* returns r the reply is exactly {jsonrpc: "2.0", id: <request id>,
\* result: r}, without an error key.
C3_SuccessPassesResultThrough ==
    (/\ Dispatched
     /\ req[1].method \in RegistryKeys
     /\ DerivedHandler # None
     /\ ~BagMismatch(DerivedHandler[1], GivenBag)) =>
        /\ handler_outcome # None
        /\ handler_outcome[1].kind = "return" =>
             /\ reply.kind = "envelope"
             /\ DOMAIN reply.body = {"jsonrpc", "id", "result"}
             /\ reply.body.jsonrpc = "2.0"
             /\ reply.body.id = req[1].id
             /\ reply.body.result = handler_outcome[1].value

C3_Witness ==
    /\ Dispatched
    /\ req[1].method = NameMailSend
    /\ req[1].id = Some(7)
    /\ req[1].params = Some(<<<<"dry_run", "d1">>, <<"draft_id", "d1">>>>)
    /\ reply.kind = "envelope"
    /\ "result" \in DOMAIN reply.body
    /\ reply.body.result = [dry_run |-> "True", draft_id |-> "d1"]

\* C4: a "2.0" request whose method is a key of the registry but derives no
\* handler is answered by an error envelope with code -32601 whose message
\* names the tool as the caller wrote it, not the derived identifier, and
\* differs from the unknown-tool message for the same name.
C4_UnimplementedToolMessage ==
    (/\ Dispatched
     /\ req[1].method \in RegistryKeys
     /\ DerivedHandler = None) =>
        /\ IsErrorReply
        /\ reply.body.error.code = -32601
        /\ Contains(reply.body.error.message, req[1].method)
        /\ Replace(req[1].method) # req[1].method =>
             ~Contains(reply.body.error.message, Replace(req[1].method))
        /\ reply.body.error.message # UnknownToolMessage(req[1].method)

C4_Witness ==
    /\ Dispatched
    /\ req[1].method = NameEchoPing
    /\ NameEchoPing \in RegistryKeys
    /\ IsErrorReply
    /\ trace = <<"lookup", "resolve">>

\* C5: every "2.0" request, whatever the registry, method, params and
\* handler outcome, is answered by an envelope holding exactly one of the
\* keys result and error; the call never ends in an uncaught failure.
C5_ExactlyOneOfResultAndError ==
    Dispatched =>
        /\ reply.kind = "envelope"
        /\ ("result" \in DOMAIN reply.body) # ("error" \in DOMAIN reply.body)

C5_Witness ==
    /\ Dispatched
    /\ handler_outcome # None
    /\ handler_outcome[1].kind = "raise"
    /\ IsErrorReply
    /\ "result" \notin DOMAIN reply.body

\* C6: for a catalog of named records with pairwise distinct names, after
\* load_tools get_tools returns exactly the catalog's records in source
\* order, and a name is found in TOOLS_LOOKUP (by the state and by the
\* dispatcher) if and only if some record of the catalog has exactly it.
C6_UniqueCatalogListedAndLookedUp ==
    (Loaded /\ ListCatalog /\ AllNamed /\ UniqueNames) =>
        /\ ToolsAnswered => reply.body = tools_file.tools
        /\ \A n \in ToolNames :
             ~Falsy(DictGet(TOOLS_LOOKUP, n)) <=> Occurrences(n) # {}
        /\ Dispatched =>
             ((IsErrorReply /\ trace = <<"lookup">>)
                <=> Occurrences(req[1].method) = {})

C6_Witness ==
    /\ ToolsAnswered
    /\ ListCatalog /\ AllNamed /\ UniqueNames
    /\ Len(tools_file.tools) = 2
    /\ tools_file.tools[1].name = NameMailSendUnderscore
    /\ tools_file.tools[2].name = NameEchoPing
    /\ Falsy(DictGet(TOOLS_LOOKUP, NameMailSend))
    /\ reply.body = tools_file.tools

\* C7: when a name occurs in more than one record of the catalog, the
\* registry maps it to the last record with that name, and every key of
\* the registry is the name field of the descriptor it maps to.
C7_LastDuplicateWins ==
    (Loaded /\ ListCatalog /\ AllNamed) =>
        /\ \A n \in ToolNames :
             Cardinality(Occurrences(n)) > 1 =>
                DictGet(TOOLS_LOOKUP, n) =
                    Some(tools_file.tools[
                        CHOOSE i \in Occurrences(n) : \A j \in Occurrences(n) : j <= i])
        /\ \A i \in DOMAIN TOOLS_LOOKUP : TOOLS_LOOKUP[i][1] = TOOLS_LOOKUP[i][2].name

C7_Witness ==
    /\ Loaded /\ ListCatalog /\ AllNamed
    /\ Len(tools_file.tools) = 2
    /\ tools_file.tools[1] = [name |-> NameMailSend, description |-> "d1"]
    /\ tools_file.tools[2] = [name |-> NameMailSend, description |-> "d2"]
    /\ TOOLS_LOOKUP = <<<<NameMailSend, [name |-> NameMailSend, description |-> "d2"]>>>>

\* The catalog cannot be read, is not JSON, is not a list of records, or
\* holds a record without a name.
BadCatalog == ~ListCatalog \/ ~AllNamed

\* C8: with an unreadable or malformed catalog, or one holding a record
\* without a name, load_tools does not raise and leaves the empty registry
\* (nothing of the valid records), and get_tools answers the empty list.
C8_BadCatalogFallsBackToEmpty ==
    BadCatalog =>
        /\ pc # "crashed"
        /\ Loaded => TOOLS_LOOKUP = EmptyDict
        /\ ToolsAnswered => reply.body = <<>>

C8_Witness ==
    /\ ToolsAnswered
    /\ ListCatalog
    /\ Len(tools_file.tools) = 2
    /\ HasName(tools_file.tools[1])
    /\ ~HasName(tools_file.tools[2])
    /\ TOOLS_LOOKUP = EmptyDict
    /\ reply.body = <<>>

\* C9: a request whose jsonrpc is not "2.0" is rejected with HTTP 400
\* instead of an envelope, and neither the registry lookup nor a handler
\* has run for it, whatever its method and params.
C9_VersionCheckPrecedesDispatch ==
    (McpAnswered /\ req[1].jsonrpc # "2.0") =>
        /\ reply.kind = "http_error"
        /\ reply.status = 400
        /\ trace = <<>>
        /\ handler_outcome = None

C9_Witness ==
    /\ McpAnswered
    /\ req[1].jsonrpc = "1.0"
    /\ req[1].method = NameMailSend
    /\ NameMailSend \in RegistryKeys
    /\ req[1].params = Some(<<<<"draft_id", "d1">>>>)
    /\ reply.kind = "http_error"

\* C10: when the method resolves to a catalog entry and a handler but the
\* bag (absent params counting as empty) has a key the handler does not
\* declare or lacks a parameter it requires, the handler body does not
\* run and the reply is an error envelope with code -32603 whose message
\* is the binding error's message.
C10_BindingFailureIsInternalError ==
    (/\ Dispatched
     /\ req[1].method \in RegistryKeys
     /\ DerivedHandler # None
     /\ BagMismatch(DerivedHandler[1], GivenBag)) =>
        /\ handler_outcome = None
        /\ "body" \notin Range(trace)
        /\ IsErrorReply
        /\ reply.body.error.code = -32603
        /\ reply.body.error.message = Bind(DerivedHandler[1], GivenBag).exc.msg

C10_Witness ==
    /\ Dispatched
    /\ req[1].method = NameMailSend
    /\ req[1].params = Some(<<<<"draft_id", "d1">>, <<"run_id", "d1">>>>)
    /\ IsErrorReply
    /\ reply.body.error.message =
         tool_mail_send \o <<"() got an unexpected keyword argument '", "run_id", "'">>
====
